---- MODULE Spec2Model ----
(***************************************************************************)
(* GralsBot: the deterministic validation of a candidate segmentation of  *)
(* a chapter against the chapter's text                                   *)
(* (backend/scripts/validate_segments.py, backend/scripts/segment_utils.py),*)
(* the pipeline around it (backend/scripts/process_chapter.py) and the     *)
(* index it feeds (backend/scripts/add_chapter.py)                         *)
(*                                                                         *)
(* Text is a sequence of one-character strings.  A JSON scalar is a record *)
(* [t, i, s]: t is its JSON type, i its number (for "float" the number is  *)
(* i + 0.5, a non-integral value), s its characters (for "str").  A list   *)
(* element of the segment file is [obj, f]: obj says whether it is a JSON  *)
(* object, f maps the object's keys to scalars.                            *)
(***************************************************************************)
EXTENDS Integers, Sequences, FiniteSets, TLC

\* ---------------------------------------------------------------- bounds
MaxTextLen == 2
MaxSegs == 2

\* ------------------------------------------------------------ characters
CR == "\r"
LF == "\n"
Chars == {"a", ".", LF, CR}
Digits == <<"0", "1", "2", "3", "4", "5", "6", "7", "8", "9">>
DigitSet == {Digits[d] : d \in 1..10}
\* \w of the compiled pattern, restricted to the characters that occur here
WordChars == {"a", "b", "K", "S", "T", "U", "N", "o", "n", "e", "_"} \cup DigitSet
\* str.rstrip() / str.strip() without argument strip these
Whitespace == {" ", LF, CR, "\t"}
ClosingChars == {"\"", "'", ")", "]", "}"}
TerminalChars == {".", "?", "!"}

Min(a, b) == IF a < b THEN a ELSE b

\* Python slice s[start:stop] for 0 <= start: clamps to the length
Slice(s, start, stop) == SubSeq(s, start + 1, Min(stop, Len(s)))

\* ------------------------------------------------------------ JSON values
JInt(n) == [t |-> "int", i |-> n, s |-> <<>>]
JStr(cs) == [t |-> "str", i |-> 0, s |-> cs]
JNull == [t |-> "null", i |-> 0, s |-> <<>>]
JBool(n) == [t |-> "bool", i |-> n, s |-> <<>>]
JFloat(n) == [t |-> "float", i |-> n, s |-> <<>>]

\* dict.get(key): the value, or None when the key is absent
Get(f, key) == IF key \in DOMAIN f THEN f[key] ELSE JNull
\* dict.get(key, default)
GetOr(f, key, default) == IF key \in DOMAIN f THEN f[key] ELSE default
\* d[key] = value on a copy of d
Put(f, key, value) == [k \in DOMAIN f \cup {key} |-> IF k = key THEN value ELSE f[k]]
\* a copy of d without key
Del(f, key) == [k \in DOMAIN f \ {key} |-> f[k]]

\* ------------------------------------------------------- int() and str()
RECURSIVE DigitsValue(_)
DigitsValue(cs) ==
    IF cs = <<>> THEN 0
    ELSE 10 * DigitsValue(SubSeq(cs, 1, Len(cs) - 1))
         + (CHOOSE d \in 0..9 : Digits[d + 1] = cs[Len(cs)])

IsDigits(cs) == cs # <<>> /\ \A k \in 1..Len(cs) : cs[k] \in DigitSet

\* int(x) raises TypeError for None and ValueError for a string that is no
\* integer literal; it truncates a float and maps a bool to 0 or 1
IntRaises(v) ==
    \/ v.t = "null"
    \/ v.t = "str" /\ ~IsDigits(v.s)

IntOf(v) == IF v.t = "str" THEN DigitsValue(v.s) ELSE v.i

RECURSIVE NatStr(_)
NatStr(n) == IF n < 10 THEN <<Digits[n + 1]>> ELSE NatStr(n \div 10) \o <<Digits[(n % 10) + 1]>>

IntStr(n) == IF n < 0 THEN <<"-">> \o NatStr(0 - n) ELSE NatStr(n)

\* str(x)
StrOf(v) ==
    CASE v.t = "str" -> v.s
      [] v.t = "int" -> IntStr(v.i)
      [] v.t = "float" -> IntStr(v.i) \o <<".", "5">>
      [] v.t = "bool" -> IF v.i = 1 THEN <<"T", "r", "u", "e">> ELSE <<"F", "a", "l", "s", "e">>
      [] OTHER -> <<"N", "o", "n", "e">>

\* x == n for a Python int n: True == 1, a non-integral float and a string never
PyEqInt(v, n) == v.t \in {"int", "bool"} /\ v.i = n

\* ------------------------------------------------------------ text helpers
\* Path.read_text(): text mode with universal newlines, "\r\n" and "\r" read as "\n"
RECURSIVE ReadText(_)
ReadText(cs) ==
    IF cs = <<>> THEN <<>>
    ELSE IF cs[1] = CR
         THEN IF Len(cs) >= 2 /\ cs[2] = LF
              THEN <<LF>> \o ReadText(SubSeq(cs, 3, Len(cs)))
              ELSE <<LF>> \o ReadText(Tail(cs))
         ELSE <<cs[1]>> \o ReadText(Tail(cs))

\* text.replace("\r\n", "\n"): leftmost non-overlapping occurrences
RECURSIVE normalise_text(_)
normalise_text(cs) ==
    IF cs = <<>> THEN <<>>
    ELSE IF cs[1] = CR /\ Len(cs) >= 2 /\ cs[2] = LF
         THEN <<LF>> \o normalise_text(SubSeq(cs, 3, Len(cs)))
         ELSE <<cs[1]>> \o normalise_text(Tail(cs))

\* len(re.findall(r"\b\w+\b", text)): the maximal runs of word characters
count_words(cs) ==
    Cardinality({k \in 1..Len(cs) :
        cs[k] \in WordChars /\ (k = 1 \/ cs[k - 1] \notin WordChars)})

RECURSIVE RStrip(_)
RStrip(cs) ==
    IF cs # <<>> /\ cs[Len(cs)] \in Whitespace THEN RStrip(SubSeq(cs, 1, Len(cs) - 1)) ELSE cs

RECURSIVE LStrip(_)
LStrip(cs) == IF cs # <<>> /\ cs[1] \in Whitespace THEN LStrip(Tail(cs)) ELSE cs

Strip(cs) == LStrip(RStrip(cs))

\* the while loop of _sentence_boundary_warning
RECURSIVE StripClosing(_)
StripClosing(cs) ==
    IF cs # <<>> /\ cs[Len(cs)] \in ClosingChars
    THEN StripClosing(RStrip(SubSeq(cs, 1, Len(cs) - 1)))
    ELSE cs

_sentence_boundary_warning(text) ==
    LET trimmed == RStrip(text) IN
    IF trimmed = <<>> THEN FALSE
    ELSE LET rest == StripClosing(trimmed) IN
         rest # <<>> /\ rest[Len(rest)] \notin TerminalChars

\* f"{int(n):03d}": zero-padded to width 3, the sign counted in the width
Pad3(n) ==
    IF n < 0
    THEN <<"-">> \o (IF 0 - n < 10 THEN <<"0">> ELSE <<>>) \o NatStr(0 - n)
    ELSE (IF n < 10 THEN <<"0", "0">> ELSE IF n < 100 THEN <<"0">> ELSE <<>>) \o NatStr(n)

CanonicalId(kap_nr, seg_nr) == <<"K">> \o Pad3(kap_nr) \o <<"-", "S">> \o Pad3(seg_nr)

\* line 67: the pattern, "^" and "$" around the canonical identifier
IdPattern(kap_nr, seg_nr) == <<"^">> \o CanonicalId(kap_nr, seg_nr) \o <<"$">>

\* the regular-expression engine on a pattern of "^", "$" and literal
\* characters: the offset where a match of pattern that starts at offset k of
\* s ends, -1 when there is none.  "$" matches at the end of s and before a
\* line feed that ends s.
RECURSIVE MatchFrom(_, _, _)
MatchFrom(pattern, s, k) ==
    IF pattern = <<>> THEN k
    ELSE IF pattern[1] = "^"
         THEN IF k = 0 THEN MatchFrom(Tail(pattern), s, k) ELSE -1
    ELSE IF pattern[1] = "$"
         THEN IF k = Len(s) \/ (k = Len(s) - 1 /\ s[Len(s)] = LF)
              THEN MatchFrom(Tail(pattern), s, k) ELSE -1
    ELSE IF k < Len(s) /\ s[k + 1] = pattern[1]
         THEN MatchFrom(Tail(pattern), s, k + 1) ELSE -1

\* re.fullmatch(pattern, s) is not None: a match that ends where s ends
FullMatch(pattern, s) == MatchFrom(pattern, s, 0) = Len(s)

\* re.match: a match at the start suffices
id_matchesPrefix(kap_nr, seg_id, seg_nr) ==
    seg_id.t = "str" /\ MatchFrom(IdPattern(kap_nr, seg_nr), seg_id.s, 0) # -1

\* lines 63-68; seg_id is a JSON value
id_matches(kap_nr, seg_id, seg_nr) ==
    seg_id.t = "str" /\ FullMatch(IdPattern(kap_nr, seg_nr), seg_id.s)

\* ------------------------------------------------------------------ state
VARIABLES
    input_file,          \* the characters stored in the chapter's TXT file
    raw_segments,        \* load_segments(segments_path): the candidate list
    kap_nr_hint,         \* [given, v]: the --kap-nr argument, or None
    SEG_MIN_WORDS,       \* settings.SEG_MIN_WORDS
    SEG_HARD_MAX,        \* settings.SEG_HARD_MAX
    producer_text,       \* the text the producer of the draft cut into segments
    defects,             \* what the producer got wrong: empty, or one defect
    pc,                  \* "input", "loop", "finish", "returned" or "raised"
    original_text,
    kap_nr,
    kap_titel,
    errors,
    warnings,
    normalised_segments,
    cursor,
    expected_seg_nr,
    idx,                 \* number of list elements the for loop has taken
    status,
    previous,            \* the outcome of an earlier run on the same files, if any
    fn_args,             \* the arguments of a function called on its own
    fn_result,           \* what its successive applications returned
    non_interactive,     \* process_chapter: args.non_interactive
    ppc,                 \* process_chapter: the position in main()
    exit_code,           \* process_chapter: the process's exit code
    effects,             \* process_chapter: what the run has written or called
    answer,              \* process_chapter: what the operator typed at the prompt
    index                \* add_chapter: the list stored at index_path

vars == <<input_file, raw_segments, kap_nr_hint, SEG_MIN_WORDS, SEG_HARD_MAX,
          producer_text, defects, pc, original_text, kap_nr, kap_titel, errors,
          warnings, normalised_segments, cursor, expected_seg_nr, idx, status,
          previous, fn_args, fn_result, non_interactive, ppc, exit_code, effects,
          answer, index>>

\* what a run of validate_segments never touches
others == <<previous, fn_args, fn_result, non_interactive, ppc, exit_code, effects,
            answer, index>>

inputs == <<input_file, kap_nr_hint, SEG_MIN_WORDS, SEG_HARD_MAX, producer_text>>
run == <<original_text, kap_nr, kap_titel, errors, warnings, normalised_segments,
         cursor, expected_seg_nr, idx, status>>

REQUIRED_FIELDS == {"id", "kap_nr", "kap_titel", "seg_nr", "word_count", "text"}

_issue(issue_type, seg_id, message) ==
    [type |-> issue_type, seg_id |-> seg_id, message |-> message]

\* ------------------------------------------------------------------ inputs
Texts(n) == UNION {[1..m -> Chars] : m \in 0..n}

ChapterNumbers == {4}
OtherChapterNumbers == {7}
Title == <<"T">>
OtherTitles == {<<"U">>, <<"T", LF>>}
\* (SEG_MIN_WORDS, SEG_HARD_MAX): the shipped pair and a pair small texts can meet
SmallThresholds == <<0, 1>>
Thresholds == {<<180, 500>>, SmallThresholds}
Hints == {[given |-> FALSE, v |-> 0]}
         \cup {[given |-> TRUE, v |-> n] : n \in ChapterNumbers \cup OtherChapterNumbers}

\* the ways to cut a text of length n into m consecutive non-empty pieces:
\* cut[j] is the end offset of piece j
Cuts(n, m) ==
    {c \in [1..m -> 0..n] :
        /\ c[m] = n
        /\ \A j \in 1..m : (IF j = 1 THEN 0 ELSE c[j - 1]) < c[j]}

CutStart(c, j) == IF j = 1 THEN 0 ELSE c[j - 1]

\* a segment object as a careful producer writes it
MakeSegment(kap, titel, nr, text, start) ==
    [obj |-> TRUE,
     f |-> [id |-> JStr(CanonicalId(kap, nr)),
            kap_nr |-> JInt(kap),
            kap_titel |-> JStr(titel),
            seg_nr |-> JInt(nr),
            word_count |-> JInt(count_words(text)),
            text |-> JStr(text),
            char_start |-> JInt(start),
            char_end |-> JInt(start + Len(text))]]

Segmentation(kap, text, c) ==
    [j \in DOMAIN c |->
        MakeSegment(kap, Title, j, SubSeq(text, CutStart(c, j) + 1, c[j]), CutStart(c, j))]

\* the segmentations of a text: one empty segment for the empty text
Segmentations(kap, text) ==
    IF text = <<>> THEN {<<MakeSegment(kap, Title, 1, <<>>, 0)>>}
    ELSE {Segmentation(kap, text, c) :
             c \in UNION {Cuts(Len(text), m) : m \in 1..Min(MaxSegs, Len(text))}}

\* validate_segments run on its own: no earlier run, no pipeline around it
Standalone ==
    /\ previous = <<>>
    /\ fn_args = <<>>
    /\ fn_result = <<>>
    /\ non_interactive = FALSE
    /\ ppc = "off"
    /\ exit_code = 0
    /\ effects = <<>>
    /\ answer = <<>>
    /\ index = <<>>

Init ==
    /\ input_file \in Texts(MaxTextLen)
    /\ producer_text \in {input_file, normalise_text(ReadText(input_file))}
    /\ \E kap \in ChapterNumbers : raw_segments \in Segmentations(kap, producer_text)
    /\ kap_nr_hint \in Hints
    /\ \E th \in Thresholds : SEG_MIN_WORDS = th[1] /\ SEG_HARD_MAX = th[2]
    /\ defects = <<>>
    /\ pc = "input"
    /\ original_text = <<>>
    /\ kap_nr = 0
    /\ kap_titel = <<>>
    /\ errors = <<>>
    /\ warnings = <<>>
    /\ normalised_segments = <<>>
    /\ cursor = 0
    /\ expected_seg_nr = 0
    /\ idx = 0
    /\ status = "none"
    /\ Standalone

\* ------------------------------------------------- the producer's defects
\* Before the validator runs, the producer of the draft may get one thing
\* wrong; it is logged as [kind, seg, key].
Defect(kind, k, key) == [kind |-> kind, seg |-> k, key |-> key]

CanCorrupt ==
    /\ pc = "input"
    /\ defects = <<>>
    /\ previous = <<>>
    /\ ppc \in {"off", "segment"}

WithField(k, key, v) ==
    [raw_segments EXCEPT ![k] = [obj |-> TRUE, f |-> Put(raw_segments[k].f, key, v)]]

TextOf(k) == raw_segments[k].f.text.s

HasField(k, key) == raw_segments[k].obj /\ key \in DOMAIN raw_segments[k].f
HasText(k) == HasField(k, "text") /\ raw_segments[k].f.text.t = "str"

\* one character of a segment's text replaced by another one
FlipChar ==
    /\ CanCorrupt
    /\ \E k \in {n \in DOMAIN raw_segments : HasText(n)} : \E j \in 1..Len(TextOf(k)) :
         \E c \in Chars \ {TextOf(k)[j]} :
            /\ raw_segments' = WithField(k, "text", JStr([TextOf(k) EXCEPT ![j] = c]))
            /\ defects' = Append(defects, Defect("flip", k, "text"))
    /\ UNCHANGED <<others, inputs, pc, run>>

\* the first g characters of a segment's text left out: a gap before it
DropPrefix ==
    /\ CanCorrupt
    /\ \E k \in {n \in DOMAIN raw_segments : HasText(n)} : \E g \in 1..Len(TextOf(k)) :
            /\ raw_segments' =
                 WithField(k, "text", JStr(SubSeq(TextOf(k), g + 1, Len(TextOf(k)))))
            /\ defects' = Append(defects, Defect("gap", k, "text"))
    /\ UNCHANGED <<others, inputs, pc, run>>

\* a character added to the end of a segment's text
AppendChar ==
    /\ CanCorrupt
    /\ \E k \in {n \in DOMAIN raw_segments : HasText(n)} : \E c \in Chars :
            /\ raw_segments' = WithField(k, "text", JStr(Append(TextOf(k), c)))
            /\ defects' = Append(defects, Defect("extra", k, "text"))
    /\ UNCHANGED <<others, inputs, pc, run>>

IntFields == {"seg_nr", "kap_nr", "word_count", "char_start", "char_end"}

\* the wrong integers tried for a field that holds n
WrongInts(key, n) ==
    CASE key = "kap_nr" -> OtherChapterNumbers
      [] key = "seg_nr" -> 0..(MaxSegs + 1) \ {n}
      [] OTHER -> {n + 1} \cup (IF n > 0 THEN {n - 1} ELSE {})

\* an integer field with another integer in it
WrongInt ==
    /\ CanCorrupt
    /\ \E k \in DOMAIN raw_segments :
         \E key \in {x \in IntFields : HasField(k, x)} :
           \E n \in WrongInts(key, raw_segments[k].f[key].i) :
            /\ raw_segments' = WithField(k, key, JInt(n))
            /\ defects' = Append(defects, Defect("wrong", k, key))
    /\ UNCHANGED <<others, inputs, pc, run>>

\* an integer field holding the right number as a value of another JSON type,
\* or no number at all
RetypedValues(key, n) ==
    IF key \in REQUIRED_FIELDS
    THEN {JStr(NatStr(n)), JFloat(n), JBool(1), JNull, JStr(<<"b">>)}
    ELSE {JStr(NatStr(n)), JFloat(n)}

WrongType ==
    /\ CanCorrupt
    /\ \E k \in DOMAIN raw_segments :
         \E key \in {x \in IntFields : HasField(k, x)} :
           \E v \in RetypedValues(key, raw_segments[k].f[key].i) :
            /\ raw_segments' = WithField(k, key, v)
            /\ defects' = Append(defects, Defect("type", k, key))
    /\ UNCHANGED <<others, inputs, pc, run>>

\* id, kap_titel or text with another value
OtherValues(k, key) ==
    CASE key = "id" ->
           {JStr(CanonicalId(CHOOSE n \in ChapterNumbers : TRUE, k + 1)),
            JStr(<<"K", "4", "-", "S">> \o NatStr(k)), JNull}
      [] key = "kap_titel" -> {JStr(t) : t \in OtherTitles} \cup {JInt(1)}
      [] OTHER -> {JNull, JInt(1)}

WrongValue ==
    /\ CanCorrupt
    /\ \E k \in {n \in DOMAIN raw_segments : raw_segments[n].obj} :
         \E key \in {"id", "kap_titel", "text"} :
         \E v \in OtherValues(k, key) :
            /\ raw_segments' = WithField(k, key, v)
            /\ defects' = Append(defects, Defect("value", k, key))
    /\ UNCHANGED <<others, inputs, pc, run>>

\* a field left out
RemoveField ==
    /\ CanCorrupt
    /\ \E k \in {n \in DOMAIN raw_segments : raw_segments[n].obj} :
         \E key \in DOMAIN raw_segments[k].f :
            /\ raw_segments' =
                 [raw_segments EXCEPT ![k] = [obj |-> TRUE, f |-> Del(raw_segments[k].f, key)]]
            /\ defects' = Append(defects, Defect("missing", k, key))
    /\ UNCHANGED <<others, inputs, pc, run>>

\* a list element that is no JSON object (a string, a number, null, a list)
NonObject ==
    /\ CanCorrupt
    /\ \E k \in DOMAIN raw_segments :
            /\ raw_segments' = [raw_segments EXCEPT ![k] = [obj |-> FALSE, f |-> <<>>]]
            /\ defects' = Append(defects, Defect("nonobject", k, ""))
    /\ UNCHANGED <<others, inputs, pc, run>>

\* an empty JSON array
EmptyList ==
    /\ CanCorrupt
    /\ raw_segments' = <<>>
    /\ defects' = Append(defects, Defect("empty", 0, ""))
    /\ UNCHANGED <<others, inputs, pc, run>>

Corrupt ==
    \/ FlipChar \/ DropPrefix \/ AppendChar \/ WrongInt \/ WrongType
    \/ WrongValue \/ RemoveField \/ NonObject \/ EmptyList

\* -------------------------------------------------------- validate_segments
\* lines 45-69: read and normalise the text, take chapter number and title
\* from the first element, compare with the hint, start the walk
HintOrZero == IF kap_nr_hint.given THEN kap_nr_hint.v ELSE 0

FirstKapNr == GetOr(raw_segments[1].f, "kap_nr", JInt(HintOrZero))

\* the exception lines 48-57 raise, "" when they raise none
BeginRaises ==
    IF raw_segments = <<>> THEN "ValueError"
    ELSE IF ~raw_segments[1].obj THEN "AttributeError"
    ELSE IF FirstKapNr.t = "null" THEN "TypeError"
    ELSE IF IntRaises(FirstKapNr) THEN "ValueError"
    ELSE ""

\* a warning whenever a hint is given
HintWarningWhenGiven(nr) ==
    IF kap_nr_hint.given
    THEN <<_issue("kap_nr_mismatch", Get(raw_segments[1].f, "id"),
                  "Kapitelnummer in Datei weicht vom Parameter ab.")>>
    ELSE <<>>

\* lines 59-66
HintWarning(nr) ==
    IF kap_nr_hint.given /\ nr # kap_nr_hint.v
    THEN <<_issue("kap_nr_mismatch", Get(raw_segments[1].f, "id"),
                  "Kapitelnummer in Datei weicht vom Parameter ab.")>>
    ELSE <<>>

Begin ==
    /\ pc = "input"
    /\ original_text' = normalise_text(ReadText(input_file))
    /\ IF BeginRaises # ""
       THEN /\ pc' = "raised"
            /\ status' = BeginRaises
            /\ UNCHANGED <<kap_nr, kap_titel, errors, warnings, normalised_segments,
                           cursor, expected_seg_nr, idx>>
       ELSE /\ pc' = "loop"
            /\ kap_nr' = IntOf(FirstKapNr)
            /\ kap_titel' = StrOf(GetOr(raw_segments[1].f, "kap_titel", JStr(<<>>)))
            /\ errors' = <<>>
            /\ warnings' = HintWarning(IntOf(FirstKapNr))
            /\ normalised_segments' = <<>>
            /\ cursor' = 0
            /\ expected_seg_nr' = 1
            /\ idx' = 0
            /\ UNCHANGED status
    /\ UNCHANGED <<others, inputs, raw_segments, defects>>

\* lines 72-113: the schema issue of a list element, <<>> when it has none
StrOrNone(v) == IF v.t = "str" THEN v ELSE JNull

SchemaIssue(seg) ==
    IF ~seg.obj
    THEN <<_issue("schema", JNull, "Jedes Segment muss ein Objekt mit Feldern sein.")>>
    ELSE IF REQUIRED_FIELDS \ DOMAIN seg.f # {}
    THEN <<_issue("schema", StrOrNone(Get(seg.f, "id")), "Fehlende Felder")>>
    ELSE IF IntRaises(seg.f.seg_nr) \/ IntRaises(seg.f.kap_nr) \/ IntRaises(seg.f.word_count)
    THEN <<_issue("schema", StrOrNone(Get(seg.f, "id")),
                  "seg_nr, kap_nr und word_count muessen Ganzzahlen sein.")>>
    ELSE IF seg.f.text.t # "str"
    THEN <<_issue("schema", Get(seg.f, "id"), "text-Feld muss ein String sein.")>>
    ELSE <<>>

\* a comparison that takes a carriage return for a line feed
TextMatchesAnyLineEnd(text, start) ==
    LET AsLineFeed(cs) == [j \in DOMAIN cs |-> IF cs[j] = CR THEN LF ELSE cs[j]] IN
    AsLineFeed(Slice(original_text, start, start + Len(text))) = AsLineFeed(text)

\* a comparison of the lengths only
TextMatchesLengthOnly(text, start) ==
    Len(Slice(original_text, start, start + Len(text))) = Len(text)

\* lines 153-154: the text equals the source at the cursor
TextMatches(text, start) == Slice(original_text, start, start + Len(text)) = text

\* a cursor that stays where it is when the text does not match
CursorAfterMatchOnly(start, text) ==
    IF Slice(original_text, start, start + Len(text)) = text THEN start + Len(text) ELSE start

\* a cursor that stops at the end of the source
CursorAfterClamped(start, text) == Min(start + Len(text), Len(original_text))

\* line 162: where the cursor goes
CursorAfter(start, text) == start + Len(text)

Maybe(cond, issue) == IF cond THEN <<issue>> ELSE <<>>

\* lines 115-189: the errors of a segment that passed the schema check
SegmentErrors(seg) ==
    LET seg_id == Get(seg.f, "id")
        seg_nr == IntOf(seg.f.seg_nr)
        text == seg.f.text.s
        start == cursor
        end == CursorAfter(start, text)
    IN  Maybe(IntOf(seg.f.kap_nr) # kap_nr,
              _issue("kap_nr_inconsistent", seg_id, "Kapitelnummer passt nicht."))
        \o Maybe(Strip(StrOf(GetOr(seg.f, "kap_titel", JStr(<<>>)))) # Strip(kap_titel),
              _issue("kap_titel_inconsistent", seg_id,
                     "kap_titel weicht von den anderen Segmenten ab."))
        \o Maybe(seg_nr # expected_seg_nr,
              _issue("seg_nr_sequence", seg_id, "Erwartet wurde eine andere seg_nr."))
        \o Maybe(~id_matches(kap_nr, JStr(StrOf(seg_id)), seg_nr),
              _issue("id_format", seg_id,
                     "Segment-ID entspricht nicht dem Muster KNNN-SMMM."))
        \o Maybe(~TextMatches(text, start),
              _issue("text_mismatch", seg_id,
                     "Segmenttext stimmt nicht exakt mit dem Original ueberein."))
        \o Maybe("char_start" \in DOMAIN seg.f /\ ~PyEqInt(seg.f.char_start, start),
              _issue("char_start", seg_id, "char_start stimmt nicht ueberein."))
        \o Maybe("char_end" \in DOMAIN seg.f /\ ~PyEqInt(seg.f.char_end, end),
              _issue("char_end", seg_id, "char_end stimmt nicht ueberein."))
        \o Maybe(count_words(text) # IntOf(seg.f.word_count),
              _issue("word_count", seg_id, "Wortanzahl stimmt nicht ueberein."))

\* the sentence-boundary test made only for segments of accepted length
SegmentWarningsLengthFirst(seg) ==
    LET seg_id == Get(seg.f, "id")
        actual_word_count == count_words(seg.f.text.s)
    IN  IF actual_word_count < SEG_MIN_WORDS
        THEN <<_issue("segment_length", seg_id, "Segment hat zu wenige Woerter.")>>
        ELSE IF actual_word_count > SEG_HARD_MAX
        THEN <<_issue("segment_length", seg_id, "Segment hat zu viele Woerter.")>>
        ELSE Maybe(_sentence_boundary_warning(seg.f.text.s),
                   _issue("sentence_boundary", seg_id,
                          "Segment endet nicht auf ., ! oder ? (abzueglich Abschlusszeichen)."))

\* lines 191-215: its warnings
SegmentWarnings(seg) ==
    LET seg_id == Get(seg.f, "id")
        actual_word_count == count_words(seg.f.text.s)
    IN  Maybe(actual_word_count < SEG_MIN_WORDS,
              _issue("segment_length", seg_id, "Segment hat zu wenige Woerter."))
        \o Maybe(actual_word_count > SEG_HARD_MAX,
              _issue("segment_length", seg_id, "Segment hat zu viele Woerter."))
        \o Maybe(_sentence_boundary_warning(seg.f.text.s),
              _issue("sentence_boundary", seg_id,
                     "Segment endet nicht auf ., ! oder ? (abzueglich Abschlusszeichen)."))

\* a copy that keeps the producer's char_end when there is one
NormalisedKeepsClaimedEnd(seg, start, end, actual_word_count) ==
    [obj |-> TRUE,
     f |-> Put(Put(Put(seg.f, "char_start", JInt(start)),
                   "char_end", GetOr(seg.f, "char_end", JInt(end))),
               "word_count", JInt(actual_word_count))]

\* a copy that keeps the producer's char_start when there is one
NormalisedKeepsClaimedStart(seg, start, end, actual_word_count) ==
    [obj |-> TRUE,
     f |-> Put(Put(Put(seg.f, "char_start", GetOr(seg.f, "char_start", JInt(start))),
                   "char_end", JInt(end)),
               "word_count", JInt(actual_word_count))]

\* a copy that keeps the producer's word_count
NormalisedKeepsClaimedCount(seg, start, end, actual_word_count) ==
    [obj |-> TRUE,
     f |-> Put(Put(seg.f, "char_start", JInt(start)), "char_end", JInt(end))]

\* lines 217-220: the normalised copy
Normalised(seg, start, end, actual_word_count) ==
    [obj |-> TRUE,
     f |-> Put(Put(Put(seg.f, "char_start", JInt(start)), "char_end", JInt(end)),
               "word_count", JInt(actual_word_count))]

\* only a segment whose text matched joins the output list
CollectOnlyMatching(list, seg, start, end, actual_word_count) ==
    IF Slice(original_text, start, end) = seg.f.text.s
    THEN Append(list, [obj |-> TRUE,
                       f |-> Put(Put(Put(seg.f, "char_start", JInt(start)),
                                     "char_end", JInt(end)),
                                 "word_count", JInt(actual_word_count))])
    ELSE list

\* line 221: the copy joins the output list
Collect(list, seg, start, end, actual_word_count) ==
    Append(list, Normalised(seg, start, end, actual_word_count))

\* a counter that follows the number it has just read
NextExpectedResync(expected, seg_nr) == seg_nr + 1

\* a counter that only moves on when the number was the expected one
NextExpectedOnMatch(expected, seg_nr) == IF seg_nr = expected THEN expected + 1 ELSE expected

\* line 140: the expected-position counter
NextExpected(expected, seg_nr) == expected + 1

\* lines 71-221: one pass of the for loop
Step ==
    /\ pc = "loop"
    /\ idx < Len(raw_segments)
    /\ LET seg == raw_segments[idx + 1] IN
       IF SchemaIssue(seg) # <<>>
       THEN /\ errors' = errors \o SchemaIssue(seg)
            /\ UNCHANGED <<warnings, normalised_segments, cursor, expected_seg_nr>>
       ELSE LET text == seg.f.text.s
                end == CursorAfter(cursor, text)
            IN  /\ errors' = errors \o SegmentErrors(seg)
                /\ warnings' = warnings \o SegmentWarnings(seg)
                /\ expected_seg_nr' = NextExpected(expected_seg_nr, IntOf(seg.f.seg_nr))
                /\ cursor' = end
                /\ normalised_segments' =
                     Collect(normalised_segments, seg, cursor, end, count_words(text))
    /\ idx' = idx + 1
    /\ UNCHANGED <<others, inputs, raw_segments, defects, pc, original_text, kap_nr, kap_titel,
                   status>>

\* a check that only notices a cursor beyond the end of the text
CoverageIssueBeyondOnly(final_cursor) ==
    IF final_cursor > Len(original_text)
    THEN <<_issue("coverage", JNull,
                  "Segmente decken den Originaltext nicht vollstaendig ab.")>>
    ELSE <<>>

\* a check that only notices a cursor short of the end of the text
CoverageIssueShortOnly(final_cursor) ==
    IF final_cursor < Len(original_text)
    THEN <<_issue("coverage", JNull,
                  "Segmente decken den Originaltext nicht vollstaendig ab.")>>
    ELSE <<>>

\* lines 223-230
CoverageIssue(final_cursor) ==
    Maybe(final_cursor # Len(original_text),
          _issue("coverage", JNull,
                 "Segmente decken den Originaltext nicht vollstaendig ab."))

\* the two tests in the other order
StatusWarningsFirst(errs, warns) ==
    IF warns # <<>> THEN "warnings" ELSE IF errs # <<>> THEN "errors" ELSE "ok"

\* lines 232-236
Status(errs, warns) ==
    IF errs # <<>> THEN "errors" ELSE IF warns # <<>> THEN "warnings" ELSE "ok"

\* lines 223-245: the coverage check, the status, the return
Finish ==
    /\ pc = "loop"
    /\ idx = Len(raw_segments)
    /\ errors' = errors \o CoverageIssue(cursor)
    /\ status' = Status(errors', warnings)
    /\ pc' = "returned"
    /\ UNCHANGED <<others, inputs, raw_segments, defects, original_text, kap_nr, kap_titel,
                   warnings, normalised_segments, cursor, expected_seg_nr, idx>>

Next == Corrupt \/ Begin \/ Step \/ Finish

Spec == Init /\ [][Next]_vars

\* A longer chapter cut into three segments, the draft exact or with a gap,
\* validated without a hint
LongTextLen == MaxTextLen + 2

InitLong ==
    /\ input_file \in [1..LongTextLen -> Chars]
    /\ producer_text \in {input_file, normalise_text(ReadText(input_file))}
    /\ Len(producer_text) >= 3
    /\ \E kap \in ChapterNumbers : \E c \in Cuts(Len(producer_text), 3) :
          raw_segments = Segmentation(kap, producer_text, c)
    /\ kap_nr_hint = [given |-> FALSE, v |-> 0]
    /\ SEG_MIN_WORDS = SmallThresholds[1]
    /\ SEG_HARD_MAX = SmallThresholds[2]
    /\ defects = <<>>
    /\ pc = "input"
    /\ original_text = <<>>
    /\ kap_nr = 0
    /\ kap_titel = <<>>
    /\ errors = <<>>
    /\ warnings = <<>>
    /\ normalised_segments = <<>>
    /\ cursor = 0
    /\ expected_seg_nr = 0
    /\ idx = 0
    /\ status = "none"
    /\ Standalone

NextLong == DropPrefix \/ Begin \/ Step \/ Finish

SpecLong == InitLong /\ [][NextLong]_vars

\* ------------------------------------- the same files validated a second time
\* what a finished run gave
Outcome ==
    [pc |-> pc, status |-> status, kap_nr |-> kap_nr, kap_titel |-> kap_titel,
     errors |-> errors, warnings |-> warnings,
     normalised_segments |-> normalised_segments]

\* the threshold pairs of a second run: too many words already with one
OtherThresholds == {SmallThresholds, <<0, 0>>}

InitTwoRuns ==
    /\ input_file \in Texts(MaxTextLen)
    /\ producer_text \in {input_file, normalise_text(ReadText(input_file))}
    /\ \E kap \in ChapterNumbers : raw_segments \in Segmentations(kap, producer_text)
    /\ kap_nr_hint \in {h \in Hints : ~h.given \/ h.v \in OtherChapterNumbers}
    /\ SEG_MIN_WORDS = 180
    /\ SEG_HARD_MAX = 500
    /\ defects = <<>>
    /\ pc = "input"
    /\ original_text = <<>>
    /\ kap_nr = 0
    /\ kap_titel = <<>>
    /\ errors = <<>>
    /\ warnings = <<>>
    /\ normalised_segments = <<>>
    /\ cursor = 0
    /\ expected_seg_nr = 0
    /\ idx = 0
    /\ status = "none"
    /\ Standalone

\* validate_segments called again on the same text, segments and hint after
\* settings.SEG_MIN_WORDS and settings.SEG_HARD_MAX have been changed
RunAgain ==
    /\ pc \in {"returned", "raised"}
    /\ previous = <<>>
    /\ ppc = "off"
    /\ previous' = <<Outcome>>
    /\ \E th \in OtherThresholds : SEG_MIN_WORDS' = th[1] /\ SEG_HARD_MAX' = th[2]
    /\ pc' = "input"
    /\ original_text' = <<>>
    /\ kap_nr' = 0
    /\ kap_titel' = <<>>
    /\ errors' = <<>>
    /\ warnings' = <<>>
    /\ normalised_segments' = <<>>
    /\ cursor' = 0
    /\ expected_seg_nr' = 0
    /\ idx' = 0
    /\ status' = "none"
    /\ UNCHANGED <<input_file, kap_nr_hint, producer_text, raw_segments, defects,
                   fn_args, fn_result, non_interactive, ppc, exit_code, effects, answer,
                   index>>

NextTwoRuns == Corrupt \/ Begin \/ Step \/ Finish \/ RunAgain

SpecTwoRuns == InitTwoRuns /\ [][NextTwoRuns]_vars

\* ------------------------------------------- the functions of segment_utils
\* a function called on its own: validate_segments is not running
NotValidating ==
    /\ input_file = <<>>
    /\ raw_segments = <<>>
    /\ kap_nr_hint = [given |-> FALSE, v |-> 0]
    /\ SEG_MIN_WORDS = 180
    /\ SEG_HARD_MAX = 500
    /\ producer_text = <<>>
    /\ defects = <<>>
    /\ pc = "idle"
    /\ original_text = <<>>
    /\ kap_nr = 0
    /\ kap_titel = <<>>
    /\ errors = <<>>
    /\ warnings = <<>>
    /\ normalised_segments = <<>>
    /\ cursor = 0
    /\ expected_seg_nr = 0
    /\ idx = 0
    /\ status = "none"
    /\ previous = <<>>
    /\ non_interactive = FALSE
    /\ ppc = "off"
    /\ exit_code = 0
    /\ effects = <<>>
    /\ answer = <<>>

validating == <<inputs, raw_segments, defects, pc, run, previous, non_interactive,
                ppc, exit_code, effects, answer>>

\* str.lower() on the letters that occur
LowerChar(c) ==
    CASE c = "K" -> "k" [] c = "S" -> "s" [] c = "Y" -> "y" [] c = "N" -> "n" [] OTHER -> c

Lower(cs) == [j \in DOMAIN cs |-> LowerChar(cs[j])]

\* id_matches(kap_nr, seg_id, seg_nr) --------------------------------------
IdChapters == {4, 7, 1000}
IdPositions == {0, 12, 13, 120}

\* identifiers written for chapter c and position p, canonical and not
IdSpellings(c, p) ==
    {CanonicalId(c, p),
     Lower(CanonicalId(c, p)),
     <<"K">> \o NatStr(c) \o <<"-", "S">> \o NatStr(p),
     <<"K">> \o Pad3(c) \o <<"_", "S">> \o Pad3(p),
     <<"K">> \o Pad3(c) \o <<"S">> \o Pad3(p),
     <<"K", "0">> \o Pad3(c) \o <<"-", "S">> \o Pad3(p),
     CanonicalId(c, p) \o <<LF>>,
     <<" ">> \o CanonicalId(c, p),
     <<"^">> \o CanonicalId(c, p) \o <<"$">>}

IdValues ==
    {JStr(cs) : cs \in UNION {IdSpellings(c, p) : c \in IdChapters, p \in IdPositions}}
    \cup {JStr(<<>>), JNull, JInt(4), JBool(1), JFloat(4)}

InitIdMatches ==
    /\ NotValidating
    /\ index = <<>>
    /\ fn_args \in [kap_nr : IdChapters, seg_id : IdValues, seg_nr : IdPositions]
    /\ fn_result = <<>>

CallIdMatches ==
    /\ pc = "idle"
    /\ fn_result = <<>>
    /\ fn_result' = <<id_matches(fn_args.kap_nr, fn_args.seg_id, fn_args.seg_nr)>>
    /\ UNCHANGED <<validating, fn_args, index>>

NextIdMatches == CallIdMatches

SpecIdMatches == InitIdMatches /\ [][NextIdMatches]_vars

\* normalise_text(text) -------------------------------------------------------
InitNormalise ==
    /\ NotValidating
    /\ index = <<>>
    /\ fn_args \in Texts(LongTextLen)
    /\ fn_result = <<>>

\* normalise_text applied to the text, then to what it returned
CallNormalise ==
    /\ pc = "idle"
    /\ Len(fn_result) < 2
    /\ fn_result' = Append(fn_result,
                           normalise_text(IF fn_result = <<>> THEN fn_args
                                          ELSE fn_result[Len(fn_result)]))
    /\ UNCHANGED <<validating, fn_args, index>>

NextNormalise == CallNormalise

SpecNormalise == InitNormalise /\ [][NextNormalise]_vars

\* compute_offsets(original_text, segments) ------------------------------------
\* what a call gives: raised is "" when it returns; kind tells the two
\* ValueErrors apart; named is the identifier the message carries
OffsetsResult(raised, kind, named, offsets) ==
    [raised |-> raised, kind |-> kind, named |-> named, offsets |-> offsets]

\* seg.get('id', 'unbekannt')
Unbekannt == <<"u", "n", "b", "e", "k", "a", "n", "n", "t">>

\* a loop that looks for the text from the cursor on and resumes where it finds it
RECURSIVE OffsetsFromSearching(_, _, _, _)
OffsetsFromSearching(text, segments, at, offsets) ==
    IF segments = <<>> THEN OffsetsResult("", "", <<>>, offsets)
    ELSE LET seg == segments[1]
             t == GetOr(seg.f, "text", JStr(<<>>))
             found == {k \in at..Len(text) : Slice(text, k, k + Len(t.s)) = t.s}
         IN  IF ~seg.obj THEN OffsetsResult("AttributeError", "", <<>>, <<>>)
             ELSE IF t.t # "str" THEN OffsetsResult("ValueError", "type", <<>>, <<>>)
             ELSE IF found = {}
             THEN OffsetsResult("ValueError", "mismatch",
                                StrOf(GetOr(seg.f, "id", JStr(Unbekannt))), <<>>)
             ELSE LET k == CHOOSE x \in found : \A y \in found : x <= y IN
                  OffsetsFromSearching(text, Tail(segments), k + Len(t.s),
                                       Append(offsets, <<k, k + Len(t.s)>>))

\* lines 47-59: the loop from a cursor on, with the pairs found so far
RECURSIVE OffsetsFrom(_, _, _, _)
OffsetsFrom(text, segments, at, offsets) ==
    IF segments = <<>> THEN OffsetsResult("", "", <<>>, offsets)
    ELSE LET seg == segments[1]
             t == GetOr(seg.f, "text", JStr(<<>>))
             end == at + Len(t.s)
         IN  IF ~seg.obj THEN OffsetsResult("AttributeError", "", <<>>, <<>>)
             ELSE IF t.t # "str" THEN OffsetsResult("ValueError", "type", <<>>, <<>>)
             ELSE IF Slice(text, at, end) # t.s
             THEN OffsetsResult("ValueError", "mismatch",
                                StrOf(GetOr(seg.f, "id", JStr(Unbekannt))), <<>>)
             ELSE OffsetsFrom(text, Tail(segments), end, Append(offsets, <<at, end>>))

compute_offsets(text, segments) == OffsetsFrom(text, segments, 0, <<>>)

\* the texts of the calls: two characters suffice to tell places apart
PlainTexts(n) == UNION {[1..m -> {"a", "."}] : m \in 0..n}

\* a list element: its text a string, a number or absent, or no object at all
OffsetElements(with_id) ==
    LET ids == IF with_id THEN [id |-> JStr(<<"K">>)] ELSE <<>> IN
    {[obj |-> TRUE, f |-> Put(ids, "text", JStr(t))] : t \in PlainTexts(MaxTextLen)}
    \cup {[obj |-> TRUE, f |-> Put(ids, "text", JInt(1))],
          [obj |-> TRUE, f |-> ids],
          [obj |-> FALSE, f |-> <<>>]}

\* the identifier of the element at position j
Numbered(list) ==
    [j \in DOMAIN list |->
        IF list[j].obj /\ "id" \in DOMAIN list[j].f
        THEN [obj |-> TRUE, f |-> Put(list[j].f, "id", JStr(<<"K", Digits[j + 1]>>))]
        ELSE list[j]]

OffsetLists ==
    UNION {{Numbered(l) : l \in [1..n -> OffsetElements(with_id)]} :
              n \in 0..MaxSegs, with_id \in BOOLEAN}

InitOffsets ==
    /\ NotValidating
    /\ index = <<>>
    /\ fn_args \in [original_text : PlainTexts(MaxTextLen + 1), segments : OffsetLists]
    /\ fn_result = <<>>

CallComputeOffsets ==
    /\ pc = "idle"
    /\ fn_result = <<>>
    /\ fn_result' = <<compute_offsets(fn_args.original_text, fn_args.segments)>>
    /\ UNCHANGED <<validating, fn_args, index>>

NextOffsets == CallComputeOffsets

SpecOffsets == InitOffsets /\ [][NextOffsets]_vars

\* -------------------------------------------------------------- add_chapter
\* A chapter file is the list of the values its non-blank lines parse to.  An
\* embedding is modelled by its dimension.
JVec(dim) == [t |-> "list", i |-> dim, s |-> <<>>]

\* what embed_batch may do: fail, or give vectors of one of two dimensions
Dimensions == {2, 3}
Embeddings == {[ok |-> FALSE, dim |-> 0]} \cup {[ok |-> TRUE, dim |-> d] : d \in Dimensions}

\* lines 54-71: what makes read_jsonl raise
ReadJsonlRaises(segs) ==
    \/ \E k \in DOMAIN segs : ~segs[k].obj
    \/ \E k \in DOMAIN segs : REQUIRED_FIELDS \ DOMAIN segs[k].f # {}
    \/ segs = <<>>
    \/ \E k \in DOMAIN segs : IntRaises(segs[k].f.kap_nr)
    \/ Cardinality({IntOf(segs[k].f.kap_nr) : k \in DOMAIN segs}) # 1
    \/ Cardinality({segs[k].f.kap_titel : k \in DOMAIN segs}) # 1
    \/ \E k \in DOMAIN segs : IntRaises(segs[k].f.seg_nr)
    \/ {IntOf(segs[k].f.seg_nr) : k \in DOMAIN segs} # 1..Len(segs)

\* line 95
ExistingIds(stored) == {stored[j].f.id : j \in DOMAIN stored}

\* line 96: the segments whose id the index does not hold yet
Filtered(new_segs, existing_ids) ==
    LET IsNew(seg) == seg.f.id \notin existing_ids IN SelectSeq(new_segs, IsNew)

\* lines 123-125
WithEmbeddings(filtered, dim) ==
    [j \in DOMAIN filtered |->
        [obj |-> TRUE, f |-> Put(filtered[j].f, "embedding", JVec(dim))]]

\* what a call gives: raised is "" when it returns, index the list stored
\* at index_path after it
AddChapterResult(raised, stored) == [raised |-> raised, index |-> stored]

\* lines 82-128; embedded is what the embedding API does in this call
add_chapter(new_segs, stored, embedded) ==
    IF ReadJsonlRaises(new_segs) THEN AddChapterResult("read_jsonl", stored)
    ELSE LET filtered == Filtered(new_segs, ExistingIds(stored)) IN
         IF filtered = <<>> THEN AddChapterResult("", stored)
         ELSE IF ~embedded.ok THEN AddChapterResult("embed_batch", stored)
         ELSE IF stored # <<>> /\ embedded.dim # stored[1].f.embedding.i
         THEN AddChapterResult("RuntimeError", stored)
         ELSE AddChapterResult("", stored \o WithEmbeddings(filtered, embedded.dim))

\* the ids of the segments in chapter files, and one of another chapter
IndexIds == {JStr(CanonicalId(4, 1)), JStr(CanonicalId(4, 2))}
OtherIndexId == JStr(CanonicalId(7, 1))

ChapterLine(id, kap, nr) ==
    [obj |-> TRUE,
     f |-> [id |-> id, kap_nr |-> JInt(kap), kap_titel |-> JStr(Title), seg_nr |-> JInt(nr),
            word_count |-> JInt(1), text |-> JStr(<<"a", ".">>)]]

\* a file of chapter 4 whose lines carry these ids, numbered from 1
FileOf(ids) == [k \in DOMAIN ids |-> ChapterLine(ids[k], 4, k)]

\* files that read_jsonl refuses: no line, a line without text, a single
\* line numbered 2
RefusedFiles ==
    LET id == JStr(CanonicalId(4, 1)) IN
    {<<>>,
     <<[obj |-> TRUE, f |-> Del(ChapterLine(id, 4, 1).f, "text")]>>,
     <<ChapterLine(id, 4, 2)>>}

ChapterFiles ==
    {FileOf(ids) : ids \in UNION {[1..n -> IndexIds] : n \in 1..MaxSegs}} \cup RefusedFiles

\* the index at the start: empty, or one segment of another chapter
InitAddChapter ==
    /\ NotValidating
    /\ fn_args = <<>>
    /\ fn_result = <<>>
    /\ index \in {<<>>}
                 \cup {WithEmbeddings(<<ChapterLine(OtherIndexId, 7, 1)>>, dim) :
                          dim \in Dimensions}

\* add_chapter(chapter_path, index_path): fn_args is the file of the call,
\* fn_result where it raised ("" when it returned)
AddChapter ==
    /\ pc = "idle"
    /\ \E file \in ChapterFiles : \E embedded \in Embeddings :
         LET r == add_chapter(file, index, embedded) IN
         /\ fn_args' = file
         /\ fn_result' = <<r.raised>>
         /\ index' = r.index
    /\ UNCHANGED validating

NextAddChapter == AddChapter

SpecAddChapter == InitAddChapter /\ [][NextAddChapter]_vars

\* ---------------------------------------------------------- process_chapter
\* schema_check of segment_chapter: the per-segment test that makes it raise
IsInstanceInt(v) == v.t \in {"int", "bool"}

SchemaCheckFails(seg, kap, titel) ==
    \/ REQUIRED_FIELDS \ DOMAIN seg.f # {}
    \/ seg.f.id.t # "str"
    \/ ~IsInstanceInt(seg.f.kap_nr)
    \/ seg.f.kap_titel.t # "str"
    \/ ~IsInstanceInt(seg.f.seg_nr)
    \/ ~IsInstanceInt(seg.f.word_count)
    \/ seg.f.text.t # "str"
    \/ seg.f.kap_nr.i # kap
    \/ Strip(seg.f.kap_titel.s) # Strip(titel)
    \/ ~id_matches(kap, seg.f.id, seg.f.seg_nr.i)
    \/ \E key \in {"char_start", "char_end"} :
          key \in DOMAIN seg.f /\ ~IsInstanceInt(seg.f[key])

\* parse_segments and schema_check on the model's answer
SegmentChapterRaises(segments, kap, titel) ==
    \/ segments = <<>>
    \/ \E k \in DOMAIN segments : ~segments[k].obj
    \/ \E k \in DOMAIN segments : SchemaCheckFails(segments[k], kap, titel)

\* sys.exit(code), or the return from main()
Exit(code) == ppc' = "exited" /\ exit_code' = code

\* the chapter number of the command line is the validator's hint
InitPipeline ==
    /\ input_file \in Texts(MaxTextLen)
    /\ producer_text \in {input_file, normalise_text(ReadText(input_file))}
    /\ \E kap \in ChapterNumbers : raw_segments \in Segmentations(kap, producer_text)
    /\ kap_nr_hint \in {h \in Hints : h.given}
    /\ \E th \in Thresholds : SEG_MIN_WORDS = th[1] /\ SEG_HARD_MAX = th[2]
    /\ defects = <<>>
    /\ pc = "input"
    /\ original_text = <<>>
    /\ kap_nr = 0
    /\ kap_titel = <<>>
    /\ errors = <<>>
    /\ warnings = <<>>
    /\ normalised_segments = <<>>
    /\ cursor = 0
    /\ expected_seg_nr = 0
    /\ idx = 0
    /\ status = "none"
    /\ previous = <<>>
    /\ fn_args = <<>>
    /\ fn_result = <<>>
    /\ non_interactive \in BOOLEAN
    /\ ppc = "segment"
    /\ exit_code = 0
    /\ effects = <<>>
    /\ answer = <<>>
    /\ index = <<>>

validator == <<inputs, defects, pc, run, previous, fn_args, fn_result, non_interactive>>

\* the model's answer is the draft with at most one defect
Draft == ppc = "segment" /\ Corrupt

\* lines 80-87: segment_chapter writes the draft unless the call of the model,
\* parse_segments or schema_check raises
SegmentChapter ==
    /\ ppc = "segment"
    /\ \E failed \in BOOLEAN :
         IF failed \/ SegmentChapterRaises(raw_segments, kap_nr_hint.v, Title)
         THEN Exit(1) /\ UNCHANGED effects
         ELSE /\ ppc' = "validate"
              /\ effects' = Append(effects, "draft")
              /\ UNCHANGED exit_code
    /\ UNCHANGED <<validator, raw_segments, answer, index>>

\* lines 90-93: validate_segments(args.kap_nr, args.input, draft_path)
Validate == ppc = "validate" /\ (Begin \/ Step \/ Finish)

\* a test for a status no report has
ReportBlocksMisspelt(report_status) == report_status = "error"

\* line 103
ReportBlocks(report_status) == report_status = "errors"

\* lines 94-107: an exception ends the run; otherwise the report is written,
\* a report with errors ends the run, and the normalised segments replace
\* the draft
CheckReport ==
    /\ ppc = "validate"
    /\ pc \in {"returned", "raised"}
    /\ IF pc = "raised"
       THEN Exit(1) /\ UNCHANGED <<effects, raw_segments>>
       ELSE IF ReportBlocks(status)
       THEN /\ Exit(1)
            /\ effects' = Append(effects, "validation_report")
            /\ UNCHANGED raw_segments
       ELSE /\ ppc' = "review"
            /\ effects' = effects \o <<"validation_report", "normalised_draft">>
            /\ raw_segments' = normalised_segments
            /\ UNCHANGED exit_code
    /\ UNCHANGED <<validator, answer, index>>

\* lines 109-121: review_segments reads text and draft again, build_payload
\* calls compute_offsets, the model answers or the call fails; the report
\* with or without findings is written
Review ==
    /\ ppc = "review"
    /\ \E outcome \in {"failed", "clean", "findings"} :
         IF \/ outcome = "failed"
            \/ compute_offsets(normalise_text(ReadText(input_file)), raw_segments).raised # ""
         THEN Exit(1) /\ UNCHANGED effects
         ELSE /\ ppc' = "confirm"
              /\ effects' = effects \o <<"review", outcome>>
              /\ UNCHANGED exit_code
    /\ UNCHANGED <<validator, raw_segments, answer, index>>

\* what the operator may type; input() raises EOFError on a closed stdin
EndOfFile == <<"EOF">>
Answers == {<<"y">>, <<" ", "Y">>, <<"n">>, <<>>, <<"y", "e", "s">>, EndOfFile}

\* a comparison with the text as typed
ProceedsAsTyped(typed) == typed = <<"y">>

\* lines 128-129
Proceeds(typed) == Lower(Strip(typed)) = <<"y">>

\* lines 123-138: with warnings or findings the interactive run asks
Confirm ==
    /\ ppc = "confirm"
    /\ IF ~non_interactive /\ (warnings # <<>> \/ effects[Len(effects)] = "findings")
       THEN \E typed \in Answers :
              /\ answer' = typed
              /\ effects' = Append(effects, "asked")
              /\ IF typed = EndOfFile THEN Exit(1)
                 ELSE IF Proceeds(typed) THEN ppc' = "convert" /\ UNCHANGED exit_code
                 ELSE Exit(0)
       ELSE /\ ppc' = "convert"
            /\ UNCHANGED <<exit_code, effects, answer>>
    /\ UNCHANGED <<validator, raw_segments, index>>

\* lines 140-145: convert_file(draft_path, final_jsonl_path)
Convert ==
    /\ ppc = "convert"
    /\ \E failed \in BOOLEAN :
         IF failed THEN Exit(1) /\ effects' = Append(effects, "convert_failed")
         ELSE /\ ppc' = "index"
              /\ effects' = Append(effects, "jsonl")
              /\ UNCHANGED exit_code
    /\ UNCHANGED <<validator, raw_segments, answer, index>>

\* lines 147-158: add_chapter(final_jsonl_path, index_path) on the lines
\* convert_file wrote, one per segment of the draft
Index ==
    /\ ppc = "index"
    /\ \E embedded \in Embeddings :
         LET r == add_chapter(raw_segments, index, embedded) IN
         /\ index' = r.index
         /\ IF r.raised # "" THEN Exit(1) /\ effects' = Append(effects, "add_chapter_failed")
            ELSE Exit(0) /\ effects' = Append(effects, "add_chapter")
    /\ UNCHANGED <<validator, raw_segments, answer>>

NextPipeline ==
    \/ Draft \/ SegmentChapter \/ Validate \/ CheckReport \/ Review \/ Confirm
    \/ Convert \/ Index

SpecPipeline == InitPipeline /\ [][NextPipeline]_vars

\* ================================================================== claims
Returned == pc = "returned"

\* the positions of the issues of one type in a list of issues
Types(list, type) == {j \in DOMAIN list : list[j].type = type}

\* the draft was cut from exactly the text the validator compares with
ExactBase == producer_text = normalise_text(ReadText(input_file))

IsObjectWithText(seg) == seg.obj /\ "text" \in DOMAIN seg.f /\ seg.f.text.t = "str"

RECURSIVE ConcatTexts(_)
ConcatTexts(segs) ==
    IF segs = <<>> THEN <<>> ELSE segs[1].f.text.s \o ConcatTexts(Tail(segs))

\* the [char_start, char_end) of the list tile [0, n) in order
Tiles(list, n) ==
    /\ list # <<>>
    /\ \A j \in DOMAIN list :
         /\ list[j].f.char_start = JInt(IF j = 1 THEN 0 ELSE list[j - 1].f.char_end.i)
         /\ list[j].f.char_end.t = "int"
         /\ list[j].f.char_start.i <= list[j].f.char_end.i
    /\ list[Len(list)].f.char_end = JInt(n)

\* C1: whenever the returned status is not "errors", the candidates' texts
\* concatenated in input order are the normalised original text, and the
\* normalised segments' intervals tile [0, len(original)) without gap or overlap.
C1_CoverageWhenPassed ==
    (Returned /\ status # "errors") =>
        /\ \A k \in DOMAIN raw_segments : IsObjectWithText(raw_segments[k])
        /\ ConcatTexts(raw_segments) = original_text
        /\ Len(normalised_segments) = Len(raw_segments)
        /\ Tiles(normalised_segments, Len(original_text))

C1_Witness ==
    /\ Returned
    /\ status # "errors"
    /\ Len(raw_segments) = MaxSegs
    /\ input_file # original_text

HintAgrees == ~kap_nr_hint.given \/ kap_nr_hint.v \in ChapterNumbers

WithinLengthBounds ==
    \A k \in DOMAIN raw_segments :
        /\ count_words(TextOf(k)) >= SEG_MIN_WORDS
        /\ count_words(TextOf(k)) <= SEG_HARD_MAX

EndsOnTerminal ==
    \A k \in DOMAIN raw_segments :
        TextOf(k) # <<>> /\ TextOf(k)[Len(TextOf(k))] \in TerminalChars

\* C2: a chapter file of any content and line-ending style, cut into segments
\* whose concatenation is the file's text, with correct offsets, identifiers,
\* positions, chapter fields and word counts, lengths within the thresholds and
\* every segment ending on '.', '?' or '!', gets status "ok", no error, no warning.
C2_CoverageIdempotence ==
    (/\ Returned
     /\ defects = <<>>
     /\ producer_text = input_file
     /\ HintAgrees
     /\ WithinLengthBounds
     /\ EndsOnTerminal)
    => (status = "ok" /\ errors = <<>> /\ warnings = <<>>)

\* C3: for a non-empty candidate list validate_segments never raises.
C3_NeverRaises == ~(pc = "raised" /\ raw_segments # <<>>)

\* C4: in a returned report the status is "errors" exactly when there are
\* errors, "warnings" exactly when there are warnings and no errors, and "ok"
\* exactly when there are neither.
C4_StatusDerived ==
    Returned =>
        /\ status = "errors" <=> errors # <<>>
        /\ status = "warnings" <=> (errors = <<>> /\ warnings # <<>>)
        /\ status = "ok" <=> (errors = <<>> /\ warnings = <<>>)

C4_Witness == Returned /\ errors # <<>> /\ warnings # <<>> /\ status = "errors"

\* C5: every normalised segment, also in runs that record errors, has
\* char_end - char_start = len(text).
C5_IntervalLength ==
    \A j \in DOMAIN normalised_segments :
        normalised_segments[j].f.char_end.i - normalised_segments[j].f.char_start.i
            = Len(normalised_segments[j].f.text.s)

C5_Witness ==
    /\ Returned
    /\ Types(errors, "text_mismatch") # {}
    /\ Types(errors, "char_end") # {}
    /\ \E j \in DOMAIN normalised_segments : normalised_segments[j].f.text.s # <<>>

\* the fields of a segment the validator does not rewrite
OwnFields(seg) == Del(Del(Del(seg.f, "char_start"), "char_end"), "word_count")

PassesSchema(seg) == SchemaIssue(seg) = <<>>

\* C6 as claimed: the normalised list has exactly one entry per candidate
\* segment, in input order.
C6_OnePerCandidate ==
    Returned =>
        /\ Len(normalised_segments) = Len(raw_segments)
        /\ \A j \in DOMAIN normalised_segments :
             raw_segments[j].obj /\ OwnFields(normalised_segments[j]) = OwnFields(raw_segments[j])

\* C6 amended: the normalised list has exactly one entry per candidate segment
\* that passes the schema check, in input order, whatever other errors the
\* segment has; a segment with a schema error has no entry.
C6_OnePerSchemaValidCandidate ==
    Returned =>
        LET valid == SelectSeq(raw_segments, PassesSchema) IN
        /\ Len(normalised_segments) = Len(valid)
        /\ \A j \in DOMAIN normalised_segments :
             OwnFields(normalised_segments[j]) = OwnFields(valid[j])

C6_Witness ==
    /\ Returned
    /\ Types(errors, "schema") # {}
    /\ Types(errors, "text_mismatch") # {}
    /\ Len(normalised_segments) = Len(raw_segments) - 1
    /\ Len(normalised_segments) >= 1

\* the only defect of the draft is of this kind, in this field
OnlyDefect(kind, key) ==
    defects # <<>> /\ defects[1].kind = kind /\ defects[1].key = key

\* C7: one character of one segment of an exactly covering segmentation
\* replaced by another gives exactly one text_mismatch error, with that
\* segment's id.
C7_MismatchDetection ==
    (Returned /\ ExactBase /\ OnlyDefect("flip", "text")) =>
        /\ Cardinality(Types(errors, "text_mismatch")) = 1
        /\ \A j \in Types(errors, "text_mismatch") :
             errors[j].seg_id = raw_segments[defects[1].seg].f.id

C7_Witness ==
    /\ Returned
    /\ ExactBase
    /\ defects = <<Defect("flip", 1, "text")>>
    /\ Len(raw_segments) = MaxSegs
    /\ Cardinality(Types(errors, "text_mismatch")) = 1

\* C8: n schema-valid segments numbered 1..n, one of them renumbered to a
\* wrong value: exactly one seg_nr_sequence issue, for that segment.
C8_SequencingLocal ==
    (Returned /\ OnlyDefect("wrong", "seg_nr")) =>
        /\ Cardinality(Types(errors, "seg_nr_sequence")) = 1
        /\ \A j \in Types(errors, "seg_nr_sequence") :
             errors[j].seg_id = raw_segments[defects[1].seg].f.id

C8_Witness ==
    /\ Returned
    /\ defects = <<Defect("wrong", 1, "seg_nr")>>
    /\ Len(raw_segments) = MaxSegs
    /\ Cardinality(Types(errors, "seg_nr_sequence")) = 1

\* three segments: the first two as in the source, the third the end of the
\* source after a gap
GapCase ==
    /\ Returned
    /\ ExactBase
    /\ Len(raw_segments) = 3
    /\ defects = <<Defect("gap", 3, "text")>>
    /\ TextOf(3) # <<>>

MismatchForThird ==
    \E j \in Types(errors, "text_mismatch") : errors[j].seg_id = raw_segments[3].f.id

\* C9 as claimed: for any source, the third segment gets a text_mismatch error
\* and the report a coverage error.
C9_CoverageGap == GapCase => (MismatchForThird /\ Types(errors, "coverage") # {})

\* C9 amended: the report always has a coverage error; the third segment gets a
\* text_mismatch error exactly when the source after the second segment differs
\* from the third segment's text (the end of the source).
C9_CoverageGapAmended ==
    GapCase =>
        LET s == Len(TextOf(1)) + Len(TextOf(2))
            m == Len(TextOf(3))
            n == Len(original_text)
        IN  /\ Types(errors, "coverage") # {}
            /\ MismatchForThird
                 <=> SubSeq(original_text, s + 1, s + m) # SubSeq(original_text, n - m + 1, n)

C9_Witness == GapCase /\ Types(errors, "text_mismatch") = {} /\ Types(errors, "coverage") # {}

\* C10: a pass of the loop over a schema-valid segment with an integer
\* word_count records exactly one word_count error, for that segment, when the
\* claimed count differs from the recomputed one and none when they are equal;
\* the normalised segment carries the recomputed count.
C10_WordCount ==
    [][(/\ pc = "loop"
        /\ idx' = idx + 1
        /\ PassesSchema(raw_segments[idx + 1])
        /\ raw_segments[idx + 1].f.word_count.t = "int")
       => LET seg == raw_segments[idx + 1]
              new == SubSeq(errors', Len(errors) + 1, Len(errors'))
              actual == count_words(seg.f.text.s)
          IN  /\ Cardinality(Types(new, "word_count"))
                   = (IF seg.f.word_count.i # actual THEN 1 ELSE 0)
              /\ \A j \in Types(new, "word_count") : new[j].seg_id = Get(seg.f, "id")
              /\ Len(normalised_segments') = Len(normalised_segments) + 1
              /\ normalised_segments'[Len(normalised_segments')].f.word_count = JInt(actual)
      ]_vars

C10_Witness ==
    /\ Returned
    /\ defects = <<Defect("wrong", 2, "word_count")>>
    /\ Cardinality(Types(errors, "word_count")) = 1
    /\ normalised_segments[2].f.word_count # raw_segments[2].f.word_count
    /\ normalised_segments[2].f.word_count = JInt(count_words(TextOf(2)))

\* "K" + c zero-padded to 3 digits + "-S" + p zero-padded to 3 digits
ZeroPadded3(n) ==
    LET d == NatStr(n) IN
    (IF Len(d) = 1 THEN <<"0", "0">> ELSE IF Len(d) = 2 THEN <<"0">> ELSE <<>>) \o d

IdFor(c, p) == <<"K">> \o ZeroPadded3(c) \o <<"-", "S">> \o ZeroPadded3(p)

IdCall(c, cs, p) == [kap_nr |-> c, seg_id |-> JStr(cs), seg_nr |-> p]

K004S012 == <<"K", "0", "0", "4", "-", "S", "0", "1", "2">>

\* C11: for non-negative c and p, id_matches(c, s, p) returns true exactly when
\* s is the string "K" + c padded to 3 digits + "-S" + p padded to 3 digits,
\* and false (it does not raise) for every other string and for a value that
\* is no string; (4, "K004-S012", 12) is accepted, (4, "k004-s012", 12),
\* (4, "K4-S12", 12) and (4, "K004-S012", 13) are refused.
C11_IdCanonical ==
    fn_result # <<>> =>
        /\ fn_result[1] \in BOOLEAN
        /\ fn_result[1] <=> (/\ fn_args.seg_id.t = "str"
                             /\ fn_args.seg_id.s = IdFor(fn_args.kap_nr, fn_args.seg_nr))
        /\ fn_args = IdCall(4, K004S012, 12) => fn_result[1]
        /\ fn_args = IdCall(4, Lower(K004S012), 12) => ~fn_result[1]
        /\ fn_args = IdCall(4, <<"K", "4", "-", "S", "1", "2">>, 12) => ~fn_result[1]
        /\ fn_args = IdCall(4, K004S012, 13) => ~fn_result[1]

C11_Witness == fn_args = IdCall(4, K004S012, 12) /\ fn_result = <<TRUE>>

\* C12: normalise_text is idempotent: for every text, of any mix of carriage
\* returns and line feeds, normalising the normalised text changes nothing.
C12_NormaliseIdempotent == Len(fn_result) = 2 => fn_result[2] = fn_result[1]

\* the run of process_chapter has done this
Did(effect) == \E j \in DOMAIN effects : effects[j] = effect

\* what process_chapter does after the test of the report's status
StepsAfterReport ==
    {"normalised_draft", "review", "clean", "findings", "asked", "jsonl",
     "convert_failed", "add_chapter", "add_chapter_failed"}

\* C13: when the validation report has status "errors", process_chapter exits
\* with code 1 and does none of the later steps (the draft is not overwritten,
\* no review, no JSONL, no add_chapter); add_chapter is only reached after a
\* report whose errors list is empty.
C13_ErrorsHalt ==
    /\ (Returned /\ status = "errors") =>
          /\ ppc \in {"validate", "exited"}
          /\ ppc = "exited" => exit_code = 1
          /\ \A e \in StepsAfterReport : ~Did(e)
    /\ (ppc = "index" \/ Did("add_chapter") \/ Did("add_chapter_failed")) =>
          (Returned /\ errors = <<>>)

C13_Witness ==
    /\ Returned
    /\ status = "errors"
    /\ ppc = "exited"
    /\ exit_code = 1
    /\ Did("validation_report")
    /\ defects # <<>>

\* a finished run whose report has warnings and no errors, whose review
\* succeeded and whose later steps did not fail
WarningsOnlyRun ==
    /\ Returned
    /\ errors = <<>>
    /\ warnings # <<>>
    /\ ppc = "exited"
    /\ Did("review")
    /\ ~Did("convert_failed")
    /\ ~Did("add_chapter_failed")

NotOfLength(issue) == issue.type # "segment_length"

\* C15: two runs of validate_segments on the same text, segments and hint with
\* different values of SEG_MIN_WORDS and SEG_HARD_MAX end the same way (both
\* return, or both raise the same exception) with the same errors list, the
\* same normalised segments and the same warnings other than segment_length.
C15_ThresholdsOnlyLength ==
    (previous # <<>> /\ pc \in {"returned", "raised"}) =>
        /\ pc = previous[1].pc
        /\ pc = "raised" => status = previous[1].status
        /\ errors = previous[1].errors
        /\ normalised_segments = previous[1].normalised_segments
        /\ SelectSeq(warnings, NotOfLength) = SelectSeq(previous[1].warnings, NotOfLength)
        /\ kap_nr = previous[1].kap_nr
        /\ kap_titel = previous[1].kap_titel

C15_Witness ==
    /\ previous # <<>>
    /\ Returned
    /\ errors # <<>>
    /\ warnings # previous[1].warnings
    /\ SelectSeq(warnings, NotOfLength) # <<>>
    /\ Len(normalised_segments) = MaxSegs

\* the first segment holds a JSON integer as its chapter number
FirstKapNrIsInteger ==
    /\ raw_segments # <<>>
    /\ raw_segments[1].obj
    /\ "kap_nr" \in DOMAIN raw_segments[1].f
    /\ raw_segments[1].f.kap_nr.t = "int"

\* C16: a hint that differs from the chapter number of the first segment gives
\* exactly one kap_nr_mismatch issue, among the warnings and never among the
\* errors; the report's chapter number is the one of the segments; an otherwise
\* flawless segmentation then has status "warnings".  With no hint, or a hint
\* equal to that chapter number, there is no kap_nr_mismatch issue.
C16_HintMismatchWarns ==
    Returned =>
        /\ Types(errors, "kap_nr_mismatch") = {}
        /\ ~kap_nr_hint.given => Types(warnings, "kap_nr_mismatch") = {}
        /\ FirstKapNrIsInteger =>
              /\ kap_nr = raw_segments[1].f.kap_nr.i
              /\ Cardinality(Types(warnings, "kap_nr_mismatch"))
                   = (IF kap_nr_hint.given /\ kap_nr_hint.v # raw_segments[1].f.kap_nr.i
                      THEN 1 ELSE 0)
        /\ (defects = <<>> /\ ExactBase /\ kap_nr_hint.given
             /\ kap_nr_hint.v # raw_segments[1].f.kap_nr.i)
              => (status = "warnings" /\ errors = <<>>)

C16_Witness ==
    /\ Returned
    /\ defects = <<>>
    /\ ExactBase
    /\ Len(raw_segments) = MaxSegs
    /\ kap_nr_hint.given
    /\ kap_nr_hint.v \in OtherChapterNumbers
    /\ kap_nr \in ChapterNumbers
    /\ Cardinality(Types(warnings, "kap_nr_mismatch")) = 1
    /\ status = "warnings"

\* the segments of the call are objects whose text, if any, is a string
SegmentsHaveTexts ==
    \A k \in DOMAIN fn_args.segments :
        /\ fn_args.segments[k].obj
        /\ GetOr(fn_args.segments[k].f, "text", JStr(<<>>)).t = "str"

\* the text of segment k, the empty string when it has none
TextAt(k) == GetOr(fn_args.segments[k].f, "text", JStr(<<>>)).s

\* where segment k must start: the lengths of the texts before it
RECURSIVE StartAt(_)
StartAt(k) == IF k = 1 THEN 0 ELSE StartAt(k - 1) + Len(TextAt(k - 1))

\* segment k's text is the source's text at its place
InPlace(k) ==
    /\ StartAt(k) + Len(TextAt(k)) <= Len(fn_args.original_text)
    /\ SubSeq(fn_args.original_text, StartAt(k) + 1, StartAt(k) + Len(TextAt(k))) = TextAt(k)

\* C17: compute_offsets either returns one (start, end) pair per segment, the
\* first start 0, each start the previous end, and the source's text between
\* start and end equal to the segment's text, or it raises the content-mismatch
\* ValueError naming the first segment whose text is not the source's text at
\* the cursor; a text that occurs only at another offset is never accepted.
C17_OffsetsStrict ==
    (fn_result # <<>> /\ SegmentsHaveTexts) =>
        LET r == fn_result[1]
            segs == fn_args.segments
            out_of_place == {k \in DOMAIN segs : ~InPlace(k)}
        IN  IF out_of_place = {}
            THEN /\ r.raised = ""
                 /\ Len(r.offsets) = Len(segs)
                 /\ \A k \in DOMAIN segs :
                      /\ r.offsets[k][1] = (IF k = 1 THEN 0 ELSE r.offsets[k - 1][2])
                      /\ r.offsets[k][2] = r.offsets[k][1] + Len(TextAt(k))
                      /\ SubSeq(fn_args.original_text, r.offsets[k][1] + 1, r.offsets[k][2])
                           = TextAt(k)
            ELSE LET k == CHOOSE x \in out_of_place : \A y \in out_of_place : x <= y IN
                 /\ r.raised = "ValueError"
                 /\ r.kind = "mismatch"
                 /\ r.offsets = <<>>
                 /\ "id" \in DOMAIN segs[k].f => r.named = segs[k].f.id.s

\* the second segment's text is in the source, but not at the cursor
C17_Witness ==
    /\ fn_result # <<>>
    /\ SegmentsHaveTexts
    /\ Len(fn_args.segments) = 2
    /\ fn_args.original_text = <<"a", ".", "a">>
    /\ TextAt(1) = <<"a">>
    /\ TextAt(2) = <<"a">>
    /\ fn_result[1].raised = "ValueError"
    /\ fn_result[1].named = <<"K", "2">>

\* C18: in every step of validate_segments the cursor does not decrease, and a
\* pass of the loop over a segment that passes the schema check moves it by
\* len(text), whether or not the text matched the source at the cursor.
C18_CursorAdvances ==
    [][/\ cursor' >= cursor
       /\ (pc = "loop" /\ idx' = idx + 1 /\ PassesSchema(raw_segments[idx + 1]))
            => cursor' = cursor + Len(raw_segments[idx + 1].f.text.s)
      ]_vars

\* a first text with a changed character, then a second segment
C18_Witness ==
    /\ Returned
    /\ defects = <<Defect("flip", 1, "text")>>
    /\ Len(raw_segments) = MaxSegs
    /\ \E j \in Types(errors, "text_mismatch") : errors[j].seg_id = raw_segments[1].f.id
    /\ cursor = Len(TextOf(1)) + Len(TextOf(2))
    /\ cursor > Len(TextOf(1))

\* the lengths of the candidates' texts added up
RECURSIVE CombinedTextLength(_)
CombinedTextLength(segs) ==
    IF segs = <<>> THEN 0
    ELSE (IF IsObjectWithText(segs[1]) THEN Len(segs[1].f.text.s) ELSE 0)
         + CombinedTextLength(Tail(segs))

\* the report has a coverage error exactly when the final cursor is not the
\* length of the normalised text, at most one, with seg_id null
CoverageByCursor ==
    /\ Types(errors, "coverage") # {} <=> cursor # Len(original_text)
    /\ Cardinality(Types(errors, "coverage")) <= 1
    /\ \A j \in Types(errors, "coverage") : errors[j].seg_id = JNull

\* C19 as claimed: a report has a coverage error exactly when the final cursor
\* differs from the length of the normalised original text, at most one, its
\* seg_id null; and segments whose combined text length is shorter or longer
\* than the source always yield a coverage error.
C19_CoverageExact ==
    Returned =>
        /\ CoverageByCursor
        /\ CombinedTextLength(raw_segments) # Len(original_text)
             => Types(errors, "coverage") # {}

\* C19 amended: the same, the combined text length being that of segments
\* which all pass the schema check (the text of a segment with a schema error
\* does not move the cursor).
C19_CoverageExactForValid ==
    Returned =>
        /\ CoverageByCursor
        /\ cursor = CombinedTextLength(SelectSeq(raw_segments, PassesSchema))
        /\ ((\A k \in DOMAIN raw_segments : PassesSchema(raw_segments[k]))
             /\ CombinedTextLength(raw_segments) # Len(original_text))
             => Types(errors, "coverage") # {}

\* texts that run past the end of the source
C19_Witness ==
    /\ Returned
    /\ \A k \in DOMAIN raw_segments : PassesSchema(raw_segments[k])
    /\ Len(raw_segments) = MaxSegs
    /\ CombinedTextLength(raw_segments) > Len(original_text)
    /\ Cardinality(Types(errors, "coverage")) = 1
    /\ errors[Len(errors)].type = "coverage"

Walking == pc \in {"loop", "returned"}

\* C20 as claimed: the counter starts at 1 and goes up by one for every
\* segment of the walk whatever is found for it, so the i-th candidate is
\* compared against expected position i.
C20_CounterPerCandidate == Walking => expected_seg_nr = idx + 1

\* C20 amended: the counter starts at 1 and goes up by exactly one for every
\* segment that passes the schema check, whatever else is found for it; a
\* segment with a schema error leaves it unchanged, so a candidate is compared
\* against 1 + the number of schema-valid candidates before it.
C20_CounterPerSchemaValidCandidate ==
    Walking =>
        expected_seg_nr = 1 + Len(SelectSeq(SubSeq(raw_segments, 1, idx), PassesSchema))

\* a schema error in the first segment, and the second, numbered 2, flagged
C20_Witness ==
    /\ Returned
    /\ Len(raw_segments) = 2
    /\ ~PassesSchema(raw_segments[1])
    /\ PassesSchema(raw_segments[2])
    /\ raw_segments[2].f.seg_nr = JInt(2)
    /\ expected_seg_nr = 2
    /\ \E j \in Types(errors, "seg_nr_sequence") : errors[j].seg_id = raw_segments[2].f.id

\* an object that lacks a required field, holds something other than a JSON
\* integer as seg_nr, kap_nr or word_count, or holds no string as text
IllShaped(seg) ==
    \/ REQUIRED_FIELDS \ DOMAIN seg.f # {}
    \/ \E key \in {"seg_nr", "kap_nr", "word_count"} : seg.f[key].t # "int"
    \/ seg.f.text.t # "str"

\* C21: a pass of the loop over a segment that lacks a required field, whose
\* seg_nr, kap_nr or word_count is not an integer (a numeric string, a
\* non-integral number, a boolean, null) or whose text is not a string records
\* a schema error and no other issue and goes on to the next segment; a pass
\* over a segment with all fields present and correctly typed records no
\* schema error.
C21_SchemaCheck ==
    [][(pc = "loop" /\ idx' = idx + 1 /\ raw_segments[idx + 1].obj)
       => LET seg == raw_segments[idx + 1]
              new == SubSeq(errors', Len(errors) + 1, Len(errors'))
          IN  IF IllShaped(seg)
              THEN /\ Len(new) = 1
                   /\ new[1].type = "schema"
                   /\ warnings' = warnings
                   /\ pc' = "loop"
              ELSE Types(new, "schema") = {}
      ]_vars

\* each entry starts where the one before it ends, the first at 0
Contiguous(list) ==
    \A j \in DOMAIN list :
        list[j].f.char_start = JInt(IF j = 1 THEN 0 ELSE list[j - 1].f.char_end.i)

\* C22: in every run that returns, with or without errors or skipped
\* schema-invalid segments, the normalised list is contiguous: the first
\* entry has char_start 0, every later one has char_start equal to its
\* predecessor's char_end, and the last char_end is the final cursor of the
\* coverage check.
C22_NormalisedContiguous ==
    Returned =>
        /\ Contiguous(normalised_segments)
        /\ normalised_segments # <<>> =>
              normalised_segments[Len(normalised_segments)].f.char_end = JInt(cursor)

\* two entries after a first text that is too long: the second starts where
\* the first ends, not where the producer put it
C22_Witness ==
    /\ Returned
    /\ Len(normalised_segments) = MaxSegs
    /\ defects = <<Defect("extra", 1, "text")>>
    /\ Types(errors, "char_start") # {}
    /\ Types(errors, "coverage") # {}
    /\ normalised_segments[2].f.char_start # raw_segments[2].f.char_start
    /\ normalised_segments[2].f.char_start = normalised_segments[1].f.char_end

\* the (char_start, char_end) pairs of a list of normalised segments
Pairs(list) == [j \in DOMAIN list |-> <<list[j].f.char_start.i, list[j].f.char_end.i>>]

\* C23: when validate_segments returns a status other than "errors",
\* compute_offsets on the same normalised text and the returned normalised
\* segments does not raise and returns exactly the (char_start, char_end)
\* pairs of those segments; so in process_chapter the review that follows a
\* passed validation finds the saved draft in place and does not fail with a
\* content mismatch.
C23_ValidatorAndOffsetsAgree ==
    /\ (Returned /\ status # "errors") =>
          compute_offsets(original_text, normalised_segments)
            = OffsetsResult("", "", <<>>, Pairs(normalised_segments))
    /\ ppc = "review" =>
          /\ raw_segments = normalised_segments
          /\ compute_offsets(normalise_text(ReadText(input_file)), raw_segments).raised = ""

\* a chapter with a carriage return in its file, cut in two, validated and
\* reviewed
C23_Witness ==
    /\ ppc = "confirm"
    /\ Did("review")
    /\ status = "warnings"
    /\ input_file # original_text
    /\ Len(raw_segments) = MaxSegs
    /\ compute_offsets(original_text, raw_segments).offsets = Pairs(normalised_segments)
    /\ Pairs(normalised_segments)[2][1] > 0

\* no two entries of the index have the same id
DistinctIds(stored) ==
    \A i, j \in DOMAIN stored : stored[i].f.id = stored[j].f.id => i = j

\* C24: a call of add_chapter on an index whose ids are pairwise distinct, with
\* any chapter file that passes read_jsonl (the same file again included),
\* leaves the ids of the index pairwise distinct; and a call in which every
\* segment id of the file is already in the index adds nothing and leaves the
\* stored index unchanged.
C24_NoDuplicateIds ==
    [][DistinctIds(index) =>
         /\ DistinctIds(index')
         /\ (/\ ~ReadJsonlRaises(fn_args')
             /\ \A k \in DOMAIN fn_args' : fn_args'[k].f.id \in ExistingIds(index))
              => index' = index
      ]_vars

====
